---- MODULE Spec2Model ----
(***************************************************************************)
(* Model of the ply_jobs scheduler: the per-job executor state machine     *)
(* (src/src/executor.rs), the JobManager that starts and stops it          *)
(* (src/src/manager.rs), the two repository back ends                      *)
(* (src/src/repos/mongo.rs, src/src/repos/pickledb.rs), JobData::due       *)
(* (src/src/job.rs), Schedule::due (src/src/schedule.rs) and the counter   *)
(* job of src/examples/counter/main.rs.                                    *)
(*                                                                         *)
(* Spec is two managers (two instances) running one job name on a shared   *)
(* store; LiveSpec adds fairness; ProgressSpec is its failure-free part;   *)
(* ManagerSpec is one manager with two jobs; DueSpec is due on its own.    *)
(*                                                                         *)
(* Time is the wall clock in whole seconds.  Every repository call is one  *)
(* atomic step on the stored record (a single-document update in MongoDB,  *)
(* a critical section under the RwLock write guard in PickleDB); every     *)
(* await of the executor is a separate step, and the clock may advance     *)
(* between any two steps.  tokio's sleep(d) completes no earlier than d.   *)
(***************************************************************************)
EXTENDS Integers, Sequences, FiniteSets, TLC

\* ------------------------------------------------------------------ bounds
\* The cron schedule fires at every multiple of SchedulePeriod seconds.
SchedulePeriod == 20
\* The last clock value explored.
MaxTime == 41
\* JobConfig.check_interval in seconds (with_check_interval).
CheckInterval == 0
\* Cap on the number of job body invocations explored.
MaxRuns == 3

\* ------------------------------------------------------- program constants
\* Duration::from_secs(10) passed to lock by on_try_lock.
LockTtlSecs == 10
\* Duration::from_secs(1) of the Initial back-off in on_start.
RetrySecs == 1
\* The '=' padding symbol of the base64 alphabet (index after the 64 symbols).
B64Pad == 64
\* ASCII '0', the first digit serde_json writes for an integer.
AsciiZero == 48

\* The clock is observed every half lease TTL, the refresher's interval; the
\* executors are spawned just after the first firing after the epoch.
TickSecs == LockTtlSecs \div 2
StartTime == SchedulePeriod + 1

Executors == {"e1", "e2"}
Backends == {"mongo", "pickledb"}

VARIABLES
    now,        \* wall clock, whole seconds (Utc::now().timestamp())
    backend,    \* which Repo implementation the build uses
    db,         \* the store: the set of JobDto records of the job name (0 or 1)
    pc,         \* position of each executor
    jd,         \* the JobData an executor carries (Initial/Start, Run)
    wake,       \* deadline of the executor's pending sleep
    refreshAt,  \* deadline of the lease refresher's pending sleep
    cancel,     \* the executor's cancel receiver has resolved
    mgr,        \* the JobManager owning the executor: status of its job
    hBody,      \* history: body invocations since the last firing
    hSaves,     \* history: save calls applied since the last firing
    hRuns,      \* history: runs started so far (capped by MaxRuns)
    hSavedRuns, \* history: body invocations whose save succeeded
    hLastSaved, \* history: state bytes of the most recent successful save
    hAcq,       \* history: lease written by a lock, no refresh or save since
                \* (freed: the expires cleared by another owner's save before)
    hLock,      \* history: what the executor's last lock call returned
    hRes,       \* history: the RunSelectResult of the executor's last run
    hFail,      \* history: a body returned Err since the last firing
    hSaved,     \* history: the save that was the record's last write
    hLease,     \* history: the expires the running executor last wrote
    hCrash,     \* history: the lease and JobData of a crashed run
    oneMgr,     \* both jobs are registered with one JobManager (else with two)
    hSpawn      \* history: executor tasks spawned for each job

\* The instance id a manager hands to its executors (lease owner).
Instance(e) == IF oneMgr \/ e = "e1" THEN "i1" ELSE "i2"

vars == <<now, backend, db, pc, jd, wake, refreshAt, cancel, mgr,
          hBody, hSaves, hRuns, hSavedRuns, hLastSaved, hAcq, hLock,
          hRes, hFail, hSaved, hLease, hCrash, oneMgr, hSpawn>>

\* ---------------------------------------------------------------- schedule
\* cron::Schedule::after(last).next(): the first firing strictly after last.
NextFiring(last) == ((last \div SchedulePeriod) + 1) * SchedulePeriod

\* Schedules of the wrapper type: the period in seconds of a schedule that
\* fires at every multiple of it; 0 is a schedule with no firing left (a
\* cron expression whose years are past).
Periods == {0, 1, 7, SchedulePeriod}

\* Schedule::due: after(last).next(), or DateTime::default() (the epoch)
\* when the iterator is empty, compared with lt.
ScheduleDue(p, last, t) ==
    (IF p = 0 THEN 0 ELSE ((last \div p) + 1) * p) < t

\* Mutant: due until the next firing instead of after it.
DueUntil(j, t) ==
    IF ~j.enabled THEN FALSE
    ELSE t < NextFiring(j.last_run)

\* JobData::due
Due(j, t) ==
    IF ~j.enabled THEN FALSE
    ELSE NextFiring(j.last_run) < t

\* The most recent firing before t (the firing window t lies in).
Window(t) == (t - 1) \div SchedulePeriod

\* ------------------------------------------------------------------ base64
RECURSIVE B64Encode(_)
B64Encode(bytes) ==
    IF Len(bytes) = 0 THEN << >>
    ELSE IF Len(bytes) = 1 THEN
        << bytes[1] \div 4, (bytes[1] % 4) * 16, B64Pad, B64Pad >>
    ELSE IF Len(bytes) = 2 THEN
        << bytes[1] \div 4, (bytes[1] % 4) * 16 + (bytes[2] \div 16),
           (bytes[2] % 16) * 4, B64Pad >>
    ELSE
        << bytes[1] \div 4, (bytes[1] % 4) * 16 + (bytes[2] \div 16),
           (bytes[2] % 16) * 4 + (bytes[3] \div 64), bytes[3] % 64 >>
        \o B64Encode(SubSeq(bytes, 4, Len(bytes)))

RECURSIVE B64Decode(_)
B64Decode(s) ==
    IF Len(s) = 0 THEN << >>
    ELSE IF s[3] = B64Pad THEN
        << s[1] * 4 + (s[2] \div 16) >>
    ELSE IF s[4] = B64Pad THEN
        << s[1] * 4 + (s[2] \div 16), (s[2] % 16) * 16 + (s[3] \div 4) >>
    ELSE
        << s[1] * 4 + (s[2] \div 16), (s[2] % 16) * 16 + (s[3] \div 4),
           (s[3] % 4) * 64 + s[4] >>
        \o B64Decode(SubSeq(s, 5, Len(s)))

\* How a back end stores the state bytes: MongoDB as a base64 string,
\* PickleDB as the raw bytes.
EncodeState(b, bytes) == IF b = "mongo" THEN B64Encode(bytes) ELSE bytes
DecodeState(b, stored) == IF b = "mongo" THEN B64Decode(stored) ELSE stored

\* ------------------------------------------------------------- the counter
\* serde_json::to_vec(&State(n)): the decimal digits of n.
RECURSIVE ToJson(_)
ToJson(n) ==
    IF n < 10 THEN << AsciiZero + n >>
    ELSE ToJson(n \div 10) \o << AsciiZero + (n % 10) >>

\* serde_json::from_slice::<State>
RECURSIVE FromJson(_)
FromJson(bytes) ==
    IF Len(bytes) = 0 THEN 0
    ELSE FromJson(SubSeq(bytes, 1, Len(bytes) - 1)) * 10
         + (bytes[Len(bytes)] - AsciiZero)

\* CountJob::call on success: empty state is 0, then increment.
CountJobCall(state) ==
    ToJson((IF Len(state) = 0 THEN 0 ELSE FromJson(state)) + 1)

\* ----------------------------------------------------------------- records
\* JobData::from(JobConfig)
FromConfig(en) == [last_run |-> 0, state |-> << >>, enabled |-> en]

\* From<JobData> for JobDto
ToDto(b, j) ==
    [state |-> EncodeState(b, j.state), last_run |-> j.last_run,
     enabled |-> j.enabled, owner |-> "", expires |-> 0]

\* TryFrom<JobDto> for JobData
FromDto(b, d) ==
    [last_run |-> d.last_run, state |-> DecodeState(b, d.state),
     enabled |-> d.enabled]

Rec(store) == CHOOSE d \in store : TRUE

\* ------------------------------------------------------------ repositories
\* Repo::create.  MongoDB: insert_one, which the unique _id rejects when the
\* record exists.  PickleDB: PickleDb::set, which writes the key.
CreateOk(b, store) == IF b = "mongo" THEN store = {} ELSE TRUE
CreateStore(b, store, j) == {ToDto(b, j)}

\* Repo::save.  MongoDB: update_one without upsert (a missing record is no
\* error and no change).  PickleDB: read, modify, set under the write guard;
\* a missing record is Error::TODO.
SaveOk(b, store) == IF b = "mongo" THEN TRUE ELSE store # {}
\* Mutant: a save that clears the owner and leaves expires.
SaveStoreKeepExpires(b, store, lastRun, state) ==
    IF store = {} THEN store
    ELSE {[Rec(store) EXCEPT !.state = EncodeState(b, state),
                             !.last_run = lastRun,
                             !.owner = ""]}
\* Mutant: a save that writes state and last_run and leaves the lease.
SaveStoreKeepLease(b, store, lastRun, state) ==
    IF store = {} THEN store
    ELSE {[Rec(store) EXCEPT !.state = EncodeState(b, state),
                             !.last_run = lastRun]}
SaveStore(b, store, lastRun, state) ==
    IF store = {} THEN store
    ELSE {[Rec(store) EXCEPT !.state = EncodeState(b, state),
                             !.last_run = lastRun,
                             !.owner = "",
                             !.expires = 0]}

\* Repo::lock: whether the conditional update applies.  MongoDB filters on
\* expires < now; PickleDB refuses when expires > now.
\* Mutant: the update filtered on the name alone.
LockFreeAlways(b, d, t) == TRUE
\* Mutant: the comparison of expires with now the wrong way round.
LockFreeWhenHeld(b, d, t) == d.expires > t
LockFree(b, d, t) == IF b = "mongo" THEN d.expires < t ELSE ~(d.expires > t)
LockStore(store, owner, t, ttl) ==
    {[Rec(store) EXCEPT !.owner = owner, !.expires = t + ttl]}

\* The lease refresher's update.  MongoDB sets expires; PickleDB sets expires
\* and owner.  Neither checks who holds the lease.
RefreshStore(b, store, owner, t, ttl) ==
    IF store = {} THEN store
    ELSE IF b = "mongo" THEN {[Rec(store) EXCEPT !.expires = t + ttl]}
    ELSE {[Rec(store) EXCEPT !.expires = t + ttl, !.owner = owner]}

NoJd == FromConfig(TRUE)
NoAcq == [owner |-> "", expires |-> 0, freed |-> 0]
NoSaved == [by |-> "", exp |-> 0]
NoCrash == [st |-> "none", exp |-> 0, last_run |-> 0, state |-> << >>]

\* An executor task that has ended: returned, panicked, or killed.
Ended == {"Done", "Panicked", "Crashed"}

\* -------------------------------------------------------------------- Init
\* Two managers have registered the job, each with its own JobConfig; the
\* executors being interchangeable, of the two mixed choices of enabled one
\* is explored.
Init ==
    /\ now = StartTime
    /\ backend \in Backends
    /\ db = {}
    /\ pc = [e \in Executors |-> "Unspawned"]
    /\ jd \in [Executors -> {FromConfig(en) : en \in BOOLEAN}]
    /\ jd["e2"].enabled => jd["e1"].enabled
    /\ wake = [e \in Executors |-> 0]
    /\ refreshAt = [e \in Executors |-> 0]
    /\ cancel = [e \in Executors |-> FALSE]
    /\ mgr = [e \in Executors |-> "Registered"]
    /\ hBody = 0
    /\ hSaves = 0
    /\ hRuns = 0
    /\ hSavedRuns = 0
    /\ hLastSaved = << >>
    /\ hAcq = NoAcq
    /\ hLock = [e \in Executors |-> ""]
    /\ hRes = [e \in Executors |-> ""]
    /\ hFail = FALSE
    /\ hSaved = NoSaved
    /\ hLease = [e \in Executors |-> 0]
    /\ hCrash = NoCrash
    /\ oneMgr = FALSE
    /\ hSpawn = [e \in Executors |-> 0]

hist == <<hBody, hSaves, hRuns, hSavedRuns, hLastSaved, hAcq, hLock,
          hRes, hFail, hSaved, hLease, hCrash>>

\* ------------------------------------------------------------------- clock
\* A deadline the clock has reached is kept as 0.
Pending(deadline, t) == IF deadline <= t THEN 0 ELSE deadline

\* Time passes while executors wait (a sleep, a repository call, the job
\* body).  Between the return of lock and the call of the body (Run, not yet
\* entered) an executor runs without awaiting, which takes no time.
Tick ==
    /\ now + TickSecs <= MaxTime
    /\ \A e \in Executors : pc[e] # "Run"
    /\ now' = now + TickSecs
    /\ wake' = [e \in Executors |-> Pending(wake[e], now')]
    /\ refreshAt' = [e \in Executors |-> Pending(refreshAt[e], now')]
    /\ hBody' = IF Window(now') # Window(now) THEN 0 ELSE hBody
    /\ hSaves' = IF Window(now') # Window(now) THEN 0 ELSE hSaves
    /\ hFail' = IF Window(now') # Window(now) THEN FALSE ELSE hFail
    /\ UNCHANGED <<backend, oneMgr, hSpawn, db, pc, jd, cancel, mgr,
                   hRuns, hSavedRuns, hLastSaved, hAcq, hLock,
                   hRes, hSaved, hLease, hCrash>>

\* Time beyond MaxTime: the pending sleeps elapse and the clock value is no
\* longer tracked.
Beyond ==
    /\ now + TickSecs > MaxTime
    /\ \A e \in Executors : pc[e] # "Run"
    /\ wake' = [e \in Executors |-> 0]
    /\ refreshAt' = [e \in Executors |-> 0]
    /\ UNCHANGED <<now, backend, oneMgr, hSpawn, db, pc, jd, cancel, mgr>>
    /\ UNCHANGED hist

\* ----------------------------------------------------------------- manager
\* The jobs in the Vec of the JobManager that job e is registered with, and
\* the first of them in the order of registration.
Jobs(e) == IF oneMgr THEN Executors ELSE {e}
FirstJob(e) ==
    IF oneMgr /\ mgr["e1"] # "Unregistered" THEN "e1" ELSE e

\* JobManager::register: the job is pushed with Status::Registered.  The
\* jobs of one manager are registered in the order e1, e2.
Register(e) ==
    /\ mgr[e] = "Unregistered"
    /\ now = StartTime
    /\ e = "e2" => mgr["e1"] # "Unregistered"
    /\ mgr' = [mgr EXCEPT ![e] = "Registered"]
    /\ UNCHANGED <<now, backend, oneMgr, hSpawn, db, pc, jd, wake, refreshAt, cancel>>
    /\ UNCHANGED hist

\* Mutant: start_all without the registered() filter.
StartAllUnfiltered(e) ==
    /\ \E j \in Jobs(e) : mgr[j] = "Registered"
    /\ now = StartTime
    /\ mgr' = [j \in Executors |->
                 IF j \in Jobs(e) /\ mgr[j] \in {"Registered", "Running"}
                 THEN "Running" ELSE mgr[j]]
    /\ pc' = [j \in Executors |->
                 IF j \in Jobs(e) /\ mgr[j] \in {"Registered", "Running"}
                 THEN "Initial" ELSE pc[j]]
    /\ hSpawn' = [j \in Executors |->
                 IF j \in Jobs(e) /\ mgr[j] \in {"Registered", "Running"}
                 THEN hSpawn[j] + 1 ELSE hSpawn[j]]
    /\ UNCHANGED <<now, backend, oneMgr, db, jd, wake, refreshAt, cancel>>
    /\ UNCHANGED hist

\* JobManager::start_all, called on the manager of job e: every job of the
\* manager that is Registered becomes Running(tx) and its executor task is
\* spawned with an initial delay below one second; the other jobs are passed
\* over.  A manager calls it at StartTime; a call that finds no Registered
\* job changes nothing.
StartAll(e) ==
    /\ \E j \in Jobs(e) : mgr[j] = "Registered"
    /\ now = StartTime
    /\ mgr' = [j \in Executors |->
                 IF j \in Jobs(e) /\ mgr[j] = "Registered"
                 THEN "Running" ELSE mgr[j]]
    /\ pc' = [j \in Executors |->
                 IF j \in Jobs(e) /\ mgr[j] = "Registered"
                 THEN "Initial" ELSE pc[j]]
    /\ hSpawn' = [j \in Executors |->
                 IF j \in Jobs(e) /\ mgr[j] = "Registered"
                 THEN hSpawn[j] + 1 ELSE hSpawn[j]]
    /\ UNCHANGED <<now, backend, oneMgr, db, jd, wake, refreshAt, cancel>>
    /\ UNCHANGED hist

\* JobManager::stop_by_name(self, name), called on the manager of job e.
\* found: a job of that name is in the Vec; the loop returns at the first
\* such job.  If it is Running it is sent the signal, and the unwrap panics
\* when the receiver is gone (the executor task has ended).  In every other
\* case the call returns Ok.  The call consumes the manager: the Sender of
\* every Running job that was not sent to is dropped, and the receiver of a
\* live executor resolves all the same.
StopByName(e) ==
    /\ mgr[e] \in {"Registered", "Running"}
    /\ \A j \in Jobs(e) : pc[j] # "Crashed"
    /\ \E found \in BOOLEAN :
        mgr' = [j \in Executors |->
                  IF j \notin Jobs(e) THEN mgr[j]
                  ELSE IF /\ found
                          /\ mgr[FirstJob(e)] = "Running"
                          /\ pc[FirstJob(e)] \in Ended
                       THEN "Panicked" ELSE "Stopped"]
    /\ cancel' = [j \in Executors |->
                    IF j \in Jobs(e) THEN mgr[j] = "Running" /\ pc[j] \notin Ended
                    ELSE cancel[j]]
    /\ UNCHANGED <<now, backend, oneMgr, hSpawn, db, pc, jd, wake, refreshAt>>
    /\ UNCHANGED hist

\* ---------------------------------------------------------------- executor
\* Mutant: after the initial delay the executor sleeps instead of starting.
OnInitialToSleeping(e) ==
    /\ pc[e] = "Initial"
    /\ now >= wake[e]
    /\ pc' = [pc EXCEPT ![e] = "Sleeping"]
    /\ UNCHANGED <<now, backend, oneMgr, hSpawn, db, jd, wake, refreshAt, cancel, mgr>>
    /\ UNCHANGED hist

\* on_initial: sleep(delay), then Start.
OnInitial(e) ==
    /\ pc[e] = "Initial"
    /\ now >= wake[e]
    /\ pc' = [pc EXCEPT ![e] = "Start"]
    /\ UNCHANGED <<now, backend, oneMgr, hSpawn, db, jd, wake, refreshAt, cancel, mgr>>
    /\ UNCHANGED hist

\* on_start, the get: error -> Initial(1s); absent -> create; present -> due?
OnStartGet(e) ==
    /\ pc[e] = "Start"
    /\ \E fail \in BOOLEAN :
        IF fail THEN
            /\ backend = "mongo"
            /\ pc' = [pc EXCEPT ![e] = "Initial"]
            /\ wake' = [wake EXCEPT ![e] = Pending(now + RetrySecs, now)]
            /\ jd' = jd
        ELSE IF db = {} THEN
            /\ pc' = [pc EXCEPT ![e] = "StartCreate"]
            /\ UNCHANGED <<wake, jd>>
        ELSE IF Due(FromDto(backend, Rec(db)), now) THEN
            /\ pc' = [pc EXCEPT ![e] = "TryLock"]
            /\ jd' = [jd EXCEPT ![e] = NoJd]
            /\ wake' = wake
        ELSE
            /\ pc' = [pc EXCEPT ![e] = "Sleeping"]
            /\ jd' = [jd EXCEPT ![e] = NoJd]
            /\ wake' = [wake EXCEPT ![e] = Pending(now + CheckInterval, now)]
    /\ UNCHANGED <<now, backend, oneMgr, hSpawn, db, refreshAt, cancel, mgr>>
    /\ UNCHANGED hist

\* on_start, the create after an absent get.
OnStartCreate(e) ==
    /\ pc[e] = "StartCreate"
    /\ \E fail \in BOOLEAN :
        IF fail \/ ~CreateOk(backend, db) THEN
            /\ pc' = [pc EXCEPT ![e] = "Initial"]
            /\ wake' = [wake EXCEPT ![e] = Pending(now + RetrySecs, now)]
            /\ UNCHANGED <<db, jd, hSaved>>
        ELSE
            /\ db' = CreateStore(backend, db, jd[e])
            /\ pc' = [pc EXCEPT ![e] = "TryLock"]
            /\ jd' = [jd EXCEPT ![e] = NoJd]
            /\ wake' = wake
            /\ hSaved' = NoSaved
    /\ UNCHANGED <<now, backend, oneMgr, hSpawn, refreshAt, cancel, mgr>>
    /\ UNCHANGED <<hBody, hSaves, hRuns, hSavedRuns, hLastSaved, hAcq, hLock,
                   hRes, hFail, hLease, hCrash>>

\* on_sleeping: the sleep elapses.
OnSleepingElapsed(e) ==
    /\ pc[e] = "Sleeping"
    /\ now >= wake[e]
    /\ pc' = [pc EXCEPT ![e] = "CheckDue"]
    /\ hLock' = [hLock EXCEPT ![e] = ""]
    /\ hRes' = [hRes EXCEPT ![e] = ""]
    /\ UNCHANGED <<now, backend, oneMgr, hSpawn, db, jd, wake, refreshAt, cancel, mgr>>
    /\ UNCHANGED <<hBody, hSaves, hRuns, hSavedRuns, hLastSaved, hAcq,
                   hFail, hSaved, hLease, hCrash>>

\* Mutant: the cancel branch of the select goes on to CheckDue.
OnSleepingCancelGoesOn(e) ==
    /\ pc[e] = "Sleeping"
    /\ cancel[e]
    /\ pc' = [pc EXCEPT ![e] = "CheckDue"]
    /\ UNCHANGED <<now, backend, oneMgr, hSpawn, db, jd, wake, refreshAt, cancel, mgr>>
    /\ UNCHANGED hist

\* on_sleeping: the cancel receiver resolves.
OnSleepingCancel(e) ==
    /\ pc[e] = "Sleeping"
    /\ cancel[e]
    /\ pc' = [pc EXCEPT ![e] = "Done"]
    /\ UNCHANGED <<now, backend, oneMgr, hSpawn, db, jd, wake, refreshAt, cancel, mgr>>
    /\ UNCHANGED hist

\* on_check_due
OnCheckDue(e) ==
    /\ pc[e] = "CheckDue"
    /\ \E fail \in BOOLEAN :
        IF fail THEN
            /\ backend = "mongo"
            /\ pc' = [pc EXCEPT ![e] = "Sleeping"]
            /\ wake' = [wake EXCEPT ![e] = Pending(now + CheckInterval, now)]
        ELSE IF db # {} /\ Due(FromDto(backend, Rec(db)), now) THEN
            /\ pc' = [pc EXCEPT ![e] = "TryLock"]
            /\ wake' = wake
        ELSE
            /\ pc' = [pc EXCEPT ![e] = "Sleeping"]
            /\ wake' = [wake EXCEPT ![e] = Pending(now + CheckInterval, now)]
    /\ UNCHANGED <<now, backend, oneMgr, hSpawn, db, jd, refreshAt, cancel, mgr>>
    /\ UNCHANGED hist

\* on_try_lock, the lock call.  A repository error or AlreadyLocked sleeps;
\* Acquired and due runs; Acquired and not due goes on to the releasing save.
\* PickleDB unwraps the result of its set, so a failed write ends the task.
OnTryLock(e) ==
    /\ pc[e] = "TryLock"
    /\ \E fail \in BOOLEAN :
        IF fail /\ backend = "mongo" THEN
            /\ pc' = [pc EXCEPT ![e] = "Sleeping"]
            /\ wake' = [wake EXCEPT ![e] = Pending(now + CheckInterval, now)]
            /\ hLock' = [hLock EXCEPT ![e] = "Err"]
            /\ UNCHANGED <<db, jd, hAcq, hSaved, hLease>>
        ELSE IF db = {} \/ ~LockFree(backend, Rec(db), now) THEN
            /\ ~fail
            /\ pc' = [pc EXCEPT ![e] = "Sleeping"]
            /\ wake' = [wake EXCEPT ![e] = Pending(now + CheckInterval, now)]
            /\ hLock' = [hLock EXCEPT ![e] =
                           IF db = {} /\ backend = "pickledb" THEN "Err"
                           ELSE "AlreadyLocked"]
            /\ UNCHANGED <<db, jd, hAcq, hSaved, hLease>>
        ELSE IF fail THEN
            /\ pc' = [pc EXCEPT ![e] = "Panicked"]
            /\ hLock' = [hLock EXCEPT ![e] = "Err"]
            /\ UNCHANGED <<db, jd, wake, hAcq, hSaved, hLease>>
        ELSE
            /\ db' = LockStore(db, Instance(e), now, LockTtlSecs)
            /\ jd' = [jd EXCEPT ![e] = FromDto(backend, Rec(db'))]
            /\ pc' = [pc EXCEPT ![e] =
                        IF Due(jd'[e], now) THEN "Run" ELSE "Release"]
            /\ hAcq' = [owner |-> Instance(e), expires |-> now + LockTtlSecs,
                         freed |-> IF hSaved.by \notin {"", Instance(e)}
                                   THEN hSaved.exp ELSE 0]
            /\ hLock' = [hLock EXCEPT ![e] = "Acquired"]
            /\ hSaved' = NoSaved
            /\ hLease' = [hLease EXCEPT ![e] = now + LockTtlSecs]
            /\ wake' = wake
    /\ pc'[e] = "Run" => hRuns < MaxRuns
    /\ hRuns' = IF pc'[e] = "Run" THEN hRuns + 1 ELSE hRuns
    /\ hCrash' = IF /\ hCrash.st = "open"
                    /\ \/ hLock'[e] = "Acquired"
                       \/ now > hCrash.exp /\ hLock'[e] # "Err"
                 THEN [hCrash EXCEPT !.st = "settled"] ELSE hCrash
    /\ UNCHANGED <<now, backend, oneMgr, hSpawn, refreshAt, cancel, mgr,
                   hBody, hSaves, hSavedRuns, hLastSaved, hRes, hFail>>

\* on_try_lock, Acquired but not due: save the record's own last_run and
\* state to release the lease, then sleep whatever the save returns.
OnTryLockRelease(e) ==
    /\ pc[e] = "Release"
    /\ \E fail \in BOOLEAN :
        IF fail \/ ~SaveOk(backend, db) THEN
            UNCHANGED <<db, hSaves, hLastSaved, hAcq, hSaved>>
        ELSE
            /\ db' = SaveStore(backend, db, jd[e].last_run, jd[e].state)
            /\ hSaves' = IF hSaves < 2 THEN hSaves + 1 ELSE hSaves
            /\ hLastSaved' = jd[e].state
            /\ hAcq' = NoAcq
            /\ hSaved' = IF db = {} THEN hSaved
                         ELSE [by |-> Instance(e), exp |-> Rec(db).expires]
    /\ pc' = [pc EXCEPT ![e] = "Sleeping"]
    /\ wake' = [wake EXCEPT ![e] = Pending(now + CheckInterval, now)]
    /\ jd' = [jd EXCEPT ![e] = NoJd]
    /\ hLease' = [hLease EXCEPT ![e] = 0]
    /\ UNCHANGED <<now, backend, oneMgr, hSpawn, refreshAt, cancel, mgr,
                   hBody, hRuns, hSavedRuns, hLock, hRes, hFail, hCrash>>

\* on_run, entry: not due drops the lease handle and sleeps; otherwise the
\* job body is called with the state of the JobData and the select starts.
OnRunEnter(e) ==
    /\ pc[e] = "Run"
    /\ IF ~Due(jd[e], now) THEN
            /\ pc' = [pc EXCEPT ![e] = "Sleeping"]
            /\ wake' = [wake EXCEPT ![e] = Pending(now + CheckInterval, now)]
            /\ jd' = [jd EXCEPT ![e] = NoJd]
            /\ hLease' = [hLease EXCEPT ![e] = 0]
            /\ UNCHANGED <<refreshAt, hBody>>
       ELSE
            /\ pc' = [pc EXCEPT ![e] = "Body"]
            /\ refreshAt' = [refreshAt EXCEPT ![e] = Pending(now + (LockTtlSecs \div 2), now)]
            /\ hBody' = IF hBody < 2 THEN hBody + 1 ELSE hBody
            /\ UNCHANGED <<wake, jd, hLease>>
    /\ UNCHANGED <<now, backend, oneMgr, hSpawn, db, cancel, mgr,
                   hRuns, hSaves, hSavedRuns, hLastSaved, hAcq, hLock,
                   hRes, hFail, hSaved, hCrash>>

\* on_run, select: the job future completes with Ok(state); the lease handle
\* is dropped with the select and the save is issued.
OnRunJobOk(e) ==
    /\ pc[e] = "Body"
    /\ pc' = [pc EXCEPT ![e] = "Save"]
    /\ jd' = [jd EXCEPT ![e].state = CountJobCall(jd[e].state)]
    /\ refreshAt' = [refreshAt EXCEPT ![e] = 0]
    /\ hLease' = [hLease EXCEPT ![e] = 0]
    /\ UNCHANGED <<now, backend, oneMgr, hSpawn, db, wake, cancel, mgr>>
    /\ UNCHANGED <<hBody, hSaves, hRuns, hSavedRuns, hLastSaved, hAcq, hLock,
                   hRes, hFail, hSaved, hCrash>>

\* Mutant: a failed body is followed by the save, like a successful one.
OnRunJobErrSaves(e) ==
    /\ pc[e] = "Body"
    /\ pc' = [pc EXCEPT ![e] = "Save"]
    /\ refreshAt' = [refreshAt EXCEPT ![e] = 0]
    /\ hRes' = [hRes EXCEPT ![e] = "JobFailure"]
    /\ hFail' = TRUE
    /\ hLease' = [hLease EXCEPT ![e] = 0]
    /\ UNCHANGED <<now, backend, oneMgr, hSpawn, db, jd, wake, cancel, mgr>>
    /\ UNCHANGED <<hBody, hSaves, hRuns, hSavedRuns, hLastSaved, hAcq, hLock,
                   hSaved, hCrash>>

\* on_run, select: the job future completes with Err: JobFailure -> Sleeping.
OnRunJobErr(e) ==
    /\ pc[e] = "Body"
    /\ pc' = [pc EXCEPT ![e] = "Sleeping"]
    /\ wake' = [wake EXCEPT ![e] = Pending(now + CheckInterval, now)]
    /\ jd' = [jd EXCEPT ![e] = NoJd]
    /\ refreshAt' = [refreshAt EXCEPT ![e] = 0]
    /\ hRes' = [hRes EXCEPT ![e] = "JobFailure"]
    /\ hFail' = TRUE
    /\ hLease' = [hLease EXCEPT ![e] = 0]
    /\ UNCHANGED <<now, backend, oneMgr, hSpawn, db, cancel, mgr>>
    /\ UNCHANGED <<hBody, hSaves, hRuns, hSavedRuns, hLastSaved, hAcq, hLock,
                   hSaved, hCrash>>

\* Mutant: a failed refresh is handled like a failed body (Sleeping).
OnRunRefreshSleeps(e) ==
    /\ pc[e] = "Body"
    /\ now >= refreshAt[e]
    /\ \E fail \in BOOLEAN :
        IF fail THEN
            /\ pc' = [pc EXCEPT ![e] = "Sleeping"]
            /\ refreshAt' = [refreshAt EXCEPT ![e] = 0]
            /\ jd' = [jd EXCEPT ![e] = NoJd]
            /\ hRes' = [hRes EXCEPT ![e] = "LockFailure"]
            /\ hLease' = [hLease EXCEPT ![e] = 0]
            /\ UNCHANGED <<db, hAcq, hSaved>>
        ELSE
            /\ db' = RefreshStore(backend, db, Instance(e), now, LockTtlSecs)
            /\ refreshAt' = [refreshAt EXCEPT ![e] = Pending(now + (LockTtlSecs \div 2), now)]
            /\ hAcq' = NoAcq
            /\ hSaved' = NoSaved
            /\ hLease' = [hLease EXCEPT ![e] = now + LockTtlSecs]
            /\ UNCHANGED <<pc, jd, hRes>>
    /\ UNCHANGED <<now, backend, oneMgr, hSpawn, wake, cancel, mgr,
                   hBody, hSaves, hRuns, hSavedRuns, hLastSaved, hLock,
                   hFail, hCrash>>

\* The lease handle polled by the select of on_run: after ttl/2 it extends
\* the lease; a failed update yields LockRefreshFailed -> LockFailure -> Done.
OnRunRefresh(e) ==
    /\ pc[e] = "Body"
    /\ now >= refreshAt[e]
    /\ \E fail \in BOOLEAN :
        IF fail THEN
            /\ pc' = [pc EXCEPT ![e] = "Done"]
            /\ refreshAt' = [refreshAt EXCEPT ![e] = 0]
            /\ jd' = [jd EXCEPT ![e] = NoJd]
            /\ hRes' = [hRes EXCEPT ![e] = "LockFailure"]
            /\ hLease' = [hLease EXCEPT ![e] = 0]
            /\ UNCHANGED <<db, hAcq, hSaved>>
        ELSE
            /\ db' = RefreshStore(backend, db, Instance(e), now, LockTtlSecs)
            /\ refreshAt' = [refreshAt EXCEPT ![e] = Pending(now + (LockTtlSecs \div 2), now)]
            /\ hAcq' = NoAcq
            /\ hSaved' = NoSaved
            /\ hLease' = [hLease EXCEPT ![e] = now + LockTtlSecs]
            /\ UNCHANGED <<pc, jd, hRes>>
    /\ UNCHANGED <<now, backend, oneMgr, hSpawn, wake, cancel, mgr,
                   hBody, hSaves, hRuns, hSavedRuns, hLastSaved, hLock,
                   hFail, hCrash>>

\* on_run, select: the cancel receiver resolves: Canceled -> Done.
OnRunCancel(e) ==
    /\ pc[e] = "Body"
    /\ cancel[e]
    /\ pc' = [pc EXCEPT ![e] = "Done"]
    /\ refreshAt' = [refreshAt EXCEPT ![e] = 0]
    /\ jd' = [jd EXCEPT ![e] = NoJd]
    /\ hRes' = [hRes EXCEPT ![e] = "Canceled"]
    /\ hLease' = [hLease EXCEPT ![e] = 0]
    /\ UNCHANGED <<now, backend, oneMgr, hSpawn, db, wake, cancel, mgr>>
    /\ UNCHANGED <<hBody, hSaves, hRuns, hSavedRuns, hLastSaved, hAcq, hLock,
                   hFail, hSaved, hCrash>>

\* on_run, the save of the job branch: save(name, Utc::now(), state);
\* Success -> Sleeping, SaveFailure -> Done.
OnRunSave(e) ==
    /\ pc[e] = "Save"
    /\ \E fail \in BOOLEAN :
        IF fail \/ ~SaveOk(backend, db) THEN
            /\ pc' = [pc EXCEPT ![e] = "Done"]
            /\ hRes' = [hRes EXCEPT ![e] = "SaveFailure"]
            /\ UNCHANGED <<db, wake, hSaves, hSavedRuns, hLastSaved, hAcq,
                           hSaved>>
        ELSE
            /\ db' = SaveStore(backend, db, now, jd[e].state)
            /\ pc' = [pc EXCEPT ![e] = "Sleeping"]
            /\ wake' = [wake EXCEPT ![e] = Pending(now + CheckInterval, now)]
            /\ hRes' = [hRes EXCEPT ![e] = "Success"]
            /\ hSaves' = IF hSaves < 2 THEN hSaves + 1 ELSE hSaves
            /\ hSavedRuns' = hSavedRuns + 1
            /\ hLastSaved' = jd[e].state
            /\ hAcq' = NoAcq
            /\ hSaved' = IF db = {} THEN hSaved
                         ELSE [by |-> Instance(e), exp |-> Rec(db).expires]
    /\ jd' = [jd EXCEPT ![e] = NoJd]
    /\ UNCHANGED <<now, backend, oneMgr, hSpawn, refreshAt, cancel, mgr,
                   hBody, hRuns, hLock, hFail, hLease, hCrash>>

\* The process of an executor is killed while the job body runs: the task
\* and its lease refresher take no further step.  One crash is explored.
Crash(e) ==
    /\ pc[e] = "Body"
    /\ hCrash.st = "none"
    /\ pc' = [pc EXCEPT ![e] = "Crashed"]
    /\ refreshAt' = [refreshAt EXCEPT ![e] = 0]
    /\ hCrash' = [st |-> IF /\ db # {}
                            /\ Rec(db).owner = Instance(e)
                            /\ Rec(db).expires = hLease[e]
                            /\ now <= hLease[e]
                         THEN "open" ELSE "late",
                  exp |-> hLease[e],
                  last_run |-> jd[e].last_run, state |-> jd[e].state]
    /\ jd' = [jd EXCEPT ![e] = NoJd]
    /\ hLease' = [hLease EXCEPT ![e] = 0]
    /\ UNCHANGED <<now, backend, oneMgr, hSpawn, db, wake, cancel, mgr>>
    /\ UNCHANGED <<hBody, hSaves, hRuns, hSavedRuns, hLastSaved, hAcq, hLock,
                   hRes, hFail, hSaved>>

\* Every step of the executor task of e.
ExecStep(e) ==
    \/ OnInitial(e)
    \/ OnStartGet(e)
    \/ OnStartCreate(e)
    \/ OnSleepingElapsed(e)
    \/ OnSleepingCancel(e)
    \/ OnCheckDue(e)
    \/ OnTryLock(e)
    \/ OnTryLockRelease(e)
    \/ OnRunEnter(e)
    \/ OnRunJobOk(e)
    \/ OnRunJobErr(e)
    \/ OnRunRefresh(e)
    \/ OnRunCancel(e)
    \/ OnRunSave(e)

Next ==
    \/ Tick
    \/ \E e \in Executors : StartAll(e)
    \/ \E e \in Executors : StopByName(e)
    \/ \E e \in Executors : Crash(e)
    \/ \E e \in Executors : OnInitial(e)
    \/ \E e \in Executors : OnStartGet(e)
    \/ \E e \in Executors : OnStartCreate(e)
    \/ \E e \in Executors : OnSleepingElapsed(e)
    \/ \E e \in Executors : OnSleepingCancel(e)
    \/ \E e \in Executors : OnCheckDue(e)
    \/ \E e \in Executors : OnTryLock(e)
    \/ \E e \in Executors : OnTryLockRelease(e)
    \/ \E e \in Executors : OnRunEnter(e)
    \/ \E e \in Executors : OnRunJobOk(e)
    \/ \E e \in Executors : OnRunJobErr(e)
    \/ \E e \in Executors : OnRunRefresh(e)
    \/ \E e \in Executors : OnRunCancel(e)
    \/ \E e \in Executors : OnRunSave(e)

Spec == Init /\ [][Next]_vars

\* The executions in which time also passes beyond MaxTime, every task that
\* can step is eventually polled, and a select whose cancel branch is ready
\* again and again eventually takes it.
LiveNext == Next \/ Beyond

Fairness ==
    /\ WF_vars(Tick)
    /\ WF_vars(Beyond)
    /\ \A e \in Executors : WF_vars(ExecStep(e))
    /\ \A e \in Executors : SF_vars(OnSleepingCancel(e))
    /\ \A e \in Executors : SF_vars(OnRunCancel(e))

LiveSpec == Init /\ [][LiveNext]_vars /\ Fairness

\* ---------------------------------------------------- the failure-free runs
\* Both managers register the job enabled.
ProgressInit == Init /\ \A e \in Executors : jd[e].enabled

\* A step of the executor of e in which the repository answers (get, lock,
\* save and the refresh return Ok; create returns Err only for a record that
\* exists, where the back end refuses it) and the job body returns Ok.
ProgressStep(e) ==
    \/ OnInitial(e)
    \/ OnStartGet(e) /\ pc'[e] # "Initial"
    \/ OnStartCreate(e) /\ (pc'[e] = "Initial" => ~CreateOk(backend, db))
    \/ OnSleepingElapsed(e)
    \/ OnCheckDue(e)
         /\ (pc'[e] = "Sleeping" =>
                ~(db # {} /\ Due(FromDto(backend, Rec(db)), now)))
    \/ OnTryLock(e) /\ hLock'[e] # "Err"
    \/ OnTryLockRelease(e)
         /\ db' = SaveStore(backend, db, jd[e].last_run, jd[e].state)
         /\ hSaved'.by = Instance(e)
    \/ OnRunEnter(e)
    \/ OnRunJobOk(e)
    \/ OnRunRefresh(e) /\ pc'[e] = "Body"
    \/ OnRunSave(e) /\ pc'[e] = "Sleeping"

\* No manager stops its job, no process is killed; time passes, also beyond
\* MaxTime.
ProgressNext ==
    \/ Tick
    \/ Beyond
    \/ \E e \in Executors : StartAll(e)
    \/ \E e \in Executors : ProgressStep(e)

\* Every executor task that can step is eventually polled, and the job body
\* eventually returns.
ProgressFairness ==
    /\ WF_vars(Tick)
    /\ WF_vars(Beyond)
    /\ \A e \in Executors : WF_vars(ProgressStep(e))
    /\ \A e \in Executors : WF_vars(OnRunJobOk(e))

ProgressSpec == ProgressInit /\ [][ProgressNext]_vars /\ ProgressFairness

\* ------------------------------------------------- one manager, two jobs
\* One JobManager (one instance id) registers the job twice under its name,
\* which register does not refuse, starts and stops them.  Both jobs are
\* enabled.
ManagerInit ==
    /\ now = StartTime
    /\ backend \in Backends
    /\ db = {}
    /\ pc = [e \in Executors |-> "Unspawned"]
    /\ jd = [e \in Executors |-> FromConfig(TRUE)]
    /\ wake = [e \in Executors |-> 0]
    /\ refreshAt = [e \in Executors |-> 0]
    /\ cancel = [e \in Executors |-> FALSE]
    /\ mgr = [e \in Executors |-> "Unregistered"]
    /\ hBody = 0
    /\ hSaves = 0
    /\ hRuns = 0
    /\ hSavedRuns = 0
    /\ hLastSaved = << >>
    /\ hAcq = NoAcq
    /\ hLock = [e \in Executors |-> ""]
    /\ hRes = [e \in Executors |-> ""]
    /\ hFail = FALSE
    /\ hSaved = NoSaved
    /\ hLease = [e \in Executors |-> 0]
    /\ hCrash = NoCrash
    /\ oneMgr = TRUE
    /\ hSpawn = [e \in Executors |-> 0]

ManagerNext ==
    \/ Tick
    \/ \E e \in Executors : Register(e)
    \/ \E e \in Executors : StartAll(e)
    \/ \E e \in Executors : StopByName(e)
    \/ \E e \in Executors : ExecStep(e)

ManagerSpec == ManagerInit /\ [][ManagerNext]_vars

\* --------------------------------------------------------- due, on its own
\* The inputs of due: a JobData with any last_run and either value of
\* enabled, and a clock that starts at the epoch.
DueInit ==
    /\ now = 0
    /\ backend \in Backends
    /\ db = {}
    /\ pc = [e \in Executors |-> "Unspawned"]
    /\ \E lr \in 0..MaxTime, en \in BOOLEAN :
          jd = [e \in Executors |-> [FromConfig(en) EXCEPT !.last_run = lr]]
    /\ wake = [e \in Executors |-> 0]
    /\ refreshAt = [e \in Executors |-> 0]
    /\ cancel = [e \in Executors |-> FALSE]
    /\ mgr = [e \in Executors |-> "Registered"]
    /\ hBody = 0
    /\ hSaves = 0
    /\ hRuns = 0
    /\ hSavedRuns = 0
    /\ hLastSaved = << >>
    /\ hAcq = NoAcq
    /\ hLock = [e \in Executors |-> ""]
    /\ hRes = [e \in Executors |-> ""]
    /\ hFail = FALSE
    /\ hSaved = NoSaved
    /\ hLease = [e \in Executors |-> 0]
    /\ hCrash = NoCrash
    /\ oneMgr = FALSE
    /\ hSpawn = [e \in Executors |-> 0]

\* due is asked again at any later clock value.
DueAgain ==
    /\ \E t \in (now + 1)..MaxTime : now' = t
    /\ UNCHANGED <<backend, oneMgr, hSpawn, db, pc, jd, wake, refreshAt, cancel, mgr>>
    /\ UNCHANGED hist

DueSpec == DueInit /\ [][DueAgain]_vars

\* The variant of enum Executor a position lies in: on_start spans the get
\* and the create, on_try_lock the lock and the releasing save, on_run the
\* due check, the select and the save.
ExecutorState(p) ==
    CASE p = "StartCreate" -> "Start"
      [] p = "Release" -> "TryLock"
      [] p \in {"Body", "Save"} -> "Run"
      [] OTHER -> p

\* ------------------------------------------------------------------ claims
\* The lock call of executor e returned Acquired in this step.
Acquired(e) == pc[e] = "TryLock" /\ hLock'[e] = "Acquired"
\* The lock call of executor e returned in this step.
LockReturned(e) == pc[e] = "TryLock" /\ pc'[e] # "TryLock"
\* The counter the stored state bytes decode to (no record or empty: 0).
Persisted(store) ==
    IF store = {} THEN 0
    ELSE FromJson(DecodeState(backend, Rec(store).state))

\* C1: at most one executor is inside the job body at any instant.
C1_MutualExclusion ==
    Cardinality({e \in Executors : pc[e] = "Body"}) <= 1

\* C2: the job body is invoked at most once, over both executors, between
\* one firing of the schedule and the next.
C2_OneBodyPerFiring == hBody <= 1

\* C3: save is applied at most once, over both executors, between one firing
\* of the schedule and the next.
C3_OneSavePerWindow == hSaves <= 1

\* C4: lock returns Acquired only when the record's expires < now, and then
\* the record carries the caller as owner and now + ttl as expires and the
\* returned JobData is the updated record; in every other case, expires = now
\* included, the record is left unchanged and the call is not Acquired.
C4_LockConditional ==
    [][\A e \in Executors : LockReturned(e) =>
        IF Acquired(e) THEN
            /\ db # {}
            /\ Rec(db).expires < now
            /\ db' = {[Rec(db) EXCEPT !.owner = Instance(e),
                                      !.expires = now + LockTtlSecs]}
            /\ jd'[e] = FromDto(backend, Rec(db'))
        ELSE
            /\ db' = db
            /\ (db # {} /\ Rec(db).expires < now) => hLock'[e] = "Err"]_vars

\* C5: every body invocation receives the state bytes of the most recent
\* successful save (empty if none), and the persisted counter equals the
\* number of body invocations whose save succeeded.
C5_NoLostUpdates ==
    [][/\ \A e \in Executors :
            (pc[e] = "Run" /\ pc'[e] = "Body") => jd[e].state = hLastSaved
       /\ Persisted(db') = hSavedRuns']_vars

\* C6: while an executor is in the body the record's owner is its instance
\* and the lease is not expired; after its successful save the owner is empty
\* and expires is 0.
C6_OwnerDuringRun ==
    [][/\ \A e \in Executors : pc'[e] = "Body" =>
            /\ db' # {}
            /\ Rec(db').owner = Instance(e)
            /\ Rec(db').expires >= now'
       /\ \A e \in Executors : (pc[e] = "Save" /\ pc'[e] = "Sleeping") =>
            /\ Rec(db').owner = ""
            /\ Rec(db').expires = 0]_vars

\* C7: no step makes the last_run of the stored record smaller.
C7_LastRunMonotone ==
    [][(db # {} /\ db' # {}) => Rec(db').last_run >= Rec(db).last_run]_vars

\* C8: create inserts the record iff none exists; on an existing record it
\* returns an error and leaves the record unchanged.
C8_CreateIfAbsent ==
    [][\A e \in Executors : (pc[e] = "StartCreate" /\ pc'[e] # "StartCreate") =>
        IF db = {} THEN
            /\ pc'[e] = "TryLock" => db' = {ToDto(backend, jd[e])}
            /\ pc'[e] = "Initial" => db' = db
        ELSE
            /\ pc'[e] = "Initial"
            /\ db' = db]_vars

\* C9: save is one step: whenever a step changes the last_run or the state
\* of the stored record, the record it leaves has an empty owner and expires
\* 0, so no reader sees the new last_run or state beside the previous lease.
C9_SaveAtomic ==
    [][(db # {} /\ db' # {}
        /\ (Rec(db').last_run # Rec(db).last_run
            \/ Rec(db').state # Rec(db).state))
       => (Rec(db').owner = "" /\ Rec(db').expires = 0)]_vars

\* C9 witness: a run's save has advanced last_run and state of a record and
\* the record carries no lease.
C9_Witness ==
    /\ db # {}
    /\ hSavedRuns >= 1
    /\ Rec(db).last_run = now
    /\ Persisted(db) >= 1
    /\ Rec(db).owner = ""
    /\ Rec(db).expires = 0

\* C10 as stated: after a lock returned Acquired for one owner and before any
\* refresh or save, a lock call from a different owner is not Acquired.
C10_SecondLockRefused ==
    [][\A e \in Executors :
        (LockReturned(e) /\ hAcq.owner \notin {"", Instance(e)})
        => (hLock'[e] # "Acquired" /\ db' = db)]_vars

\* The stored record still carries the lease the last Acquired lock wrote.
LeaseIntact == db # {} /\ Rec(db).owner = hAcq.owner
               /\ Rec(db).expires = hAcq.expires

\* C10 amended: after a lock returned Acquired for one owner, while the
\* record still carries the lease that call wrote and its ttl has not elapsed
\* (now < expires), a lock call from a different owner is not Acquired and
\* leaves the record unchanged.
C10_SecondLockRefusedWithinTtl ==
    [][\A e \in Executors :
        (LockReturned(e) /\ hAcq.owner \notin {"", Instance(e)}
         /\ LeaseIntact /\ now < hAcq.expires)
        => (hLock'[e] # "Acquired" /\ db' = db)]_vars

\* C10 witness: a second owner's lock has just returned AlreadyLocked against
\* an intact, unexpired lease of the first.
C10_Witness ==
    \E e \in Executors :
        /\ pc[e] = "Sleeping"
        /\ hLock[e] = "AlreadyLocked"
        /\ hAcq.owner \notin {"", Instance(e)}
        /\ LeaseIntact
        /\ now < hAcq.expires

\* C11: after a successful save, the next lock call on the record by a
\* different owner, when the store answers it, returns Acquired and writes
\* the caller's lease, whether or not the ttl of the lease the save cleared
\* has elapsed.
C11_LockAfterSave ==
    [][\A e \in Executors :
        (LockReturned(e) /\ db # {} /\ hSaved.by \notin {"", Instance(e)}
         /\ hLock'[e] # "Err")
        => /\ hLock'[e] = "Acquired"
           /\ db' = LockStore(db, Instance(e), now, LockTtlSecs)
           /\ jd'[e] = FromDto(backend, Rec(db'))]_vars

\* C11 witness: a lock was Acquired right after another owner's save, at a
\* time before the expires of the lease that save cleared.
C11_Witness ==
    \E e \in Executors :
        /\ hLock[e] = "Acquired"
        /\ hAcq.owner = Instance(e)
        /\ hAcq.freed > hAcq.expires - LockTtlSecs

\* C12: after an executor crashed in the job body while the record carried
\* its unexpired lease (hCrash.st = "open"), the first lock call of
\* another instance that the store answers once the crashed lease's ttl has
\* elapsed (now > expires of its last acquire or refresh) returns Acquired,
\* and the record it returns has the last_run and state the crashed run
\* started with.
C12_CrashRecovery ==
    [][\A e \in Executors :
        (LockReturned(e) /\ hCrash.st = "open" /\ now > hCrash.exp
         /\ hLock'[e] # "Err")
        => /\ hLock'[e] = "Acquired"
           /\ jd'[e].last_run = hCrash.last_run
           /\ jd'[e].state = hCrash.state]_vars

\* A step of executor e that calls the repository.
RepoCall(e) ==
    \/ OnStartGet(e)
    \/ OnStartCreate(e)
    \/ OnCheckDue(e)
    \/ OnTryLock(e)
    \/ OnTryLockRelease(e)
    \/ OnRunRefresh(e)
    \/ OnRunSave(e)

\* C13: when the lease refresher fails while the executor is in the body,
\* the executor goes to Done in that step and the record is left as it was;
\* it stays in Done and calls no save afterwards.
C13_RefreshFailure ==
    [][\A e \in Executors :
        /\ hRes'[e] = "LockFailure" =>
              (pc'[e] = "Done" /\ (pc[e] = "Body" => db' = db))
        /\ hRes[e] = "LockFailure" =>
              ~(OnRunSave(e) \/ OnTryLockRelease(e))]_vars

\* C13 witness: an executor is in Done after a lease-refresh failure and the
\* record still has the last_run the run started with.
C13_Witness ==
    \E e \in Executors :
        /\ pc[e] = "Done"
        /\ hRes[e] = "LockFailure"
        /\ db # {}
        /\ Rec(db).last_run = 0

\* C14: the step in which an executor observes the cancel signal (the cancel
\* branch of the select in Sleeping or in Run) takes it to Done and leaves
\* the record alone, and an executor in Done stays there and makes no
\* repository call.
C14_CancelStopsCalls ==
    [][\A e \in Executors :
        /\ (OnSleepingCancel(e) \/ OnRunCancel(e)) =>
              (pc'[e] = "Done" /\ db' = db)
        /\ pc[e] = "Done" => (pc'[e] = "Done" /\ ~RepoCall(e))]_vars

\* C14 witness: an executor has reached Done by observing the signal.
C14_Witness ==
    \E e \in Executors :
        /\ pc[e] = "Done"
        /\ cancel[e]
        /\ hRes[e] \notin {"LockFailure", "SaveFailure"}

\* C15: once the cancel signal has reached the receiver of a started
\* executor, the executor task eventually ends (Done; a task that panicked
\* or was killed has ended as well), whether or not repository calls fail.
C15_CancelEventuallyDone ==
    \A e \in Executors : cancel[e] ~> (pc[e] \in Ended)

\* C16: stop_by_name never panics: not for an unknown name, not for a job
\* registered and never started, not for a job whose executor has ended.
C16_StopNeverPanics ==
    \A e \in Executors :
        pc[e] \in {"Unspawned", "Done"} => mgr[e] # "Panicked"

\* C17: the step in which the job body returns an error leaves the record as
\* it was (state and last_run not advanced, nothing saved) and puts the
\* executor to sleep; no save of the job branch follows that run.
C17_JobFailureNoSave ==
    [][\A e \in Executors :
        /\ (pc[e] = "Body" /\ hRes'[e] = "JobFailure") =>
              (db' = db /\ pc'[e] = "Sleeping")
        /\ hRes[e] = "JobFailure" => ~OnRunSave(e)]_vars

\* C17 witness: an executor sleeps after its body failed and the record has
\* the state and last_run the run started with (and still the run's lease).
C17_Witness ==
    \E e \in Executors :
        /\ pc[e] = "Sleeping"
        /\ hRes[e] = "JobFailure"
        /\ db # {}
        /\ Rec(db).last_run = 0
        /\ Rec(db).state = EncodeState(backend, << >>)
        /\ Rec(db).owner = Instance(e)

\* C18: after a body returned an error for a firing, no executor invokes the
\* body again before the next firing.
C18_NoRetrySameFiring ==
    [][\A e \in Executors :
        (pc[e] = "Run" /\ pc'[e] = "Body") => ~hFail]_vars

\* C19: an error from get, create or lock (Start, CheckDue, TryLock) never
\* ends the executor: from Start it goes to Initial with the 1 s delay, from
\* CheckDue and TryLock to Sleeping with the check interval.
C19_RepoErrorsRecovered ==
    [][\A e \in Executors :
        /\ (pc[e] \in {"Start", "StartCreate", "CheckDue", "TryLock"}
            /\ pc'[e] # pc[e]) => pc'[e] \notin Ended
        /\ (pc[e] \in {"Start", "StartCreate"} /\ pc'[e] = "Initial") =>
              wake'[e] = now + RetrySecs
        /\ (pc[e] = "TryLock" /\ hLock'[e] = "Err") =>
              (pc'[e] = "Sleeping"
               /\ wake'[e] = Pending(now + CheckInterval, now))]_vars

\* C20: a disabled job is never due (at any clock value reached, for every
\* last_run), and no executor invokes the body while the stored record is
\* disabled.
C20_DisabledNeverRuns ==
    [][/\ \A lr \in 0..MaxTime :
            ~Due([FromConfig(FALSE) EXCEPT !.last_run = lr], now)
       /\ \A e \in Executors :
            (pc[e] = "Run" /\ pc'[e] = "Body") =>
                (db # {} /\ Rec(db).enabled)]_vars

\* C21: due is monotone in now: for every last_run, when due holds at one
\* clock value it holds at every later one, for JobData::due (enabled or
\* not) and for Schedule::due of every schedule.
C21_DueMonotone ==
    [][now' >= now =>
        /\ \A e \in Executors : Due(jd[e], now) => Due(jd[e], now')
        /\ \A p \in Periods :
              ScheduleDue(p, jd["e1"].last_run, now)
              => ScheduleDue(p, jd["e1"].last_run, now')]_vars

\* C21 witness: an enabled job was due one second after its next firing and
\* is due at a later clock value.
C21_Witness ==
    /\ jd["e1"].enabled
    /\ jd["e1"].last_run > 0
    /\ Due(jd["e1"], NextFiring(jd["e1"].last_run) + 1)
    /\ now > NextFiring(jd["e1"].last_run) + 1
    /\ Due(jd["e1"], now)
    /\ ScheduleDue(SchedulePeriod, jd["e1"].last_run, now)

\* The pairs (from, to) of the transition table.
Table ==
    {<<"Initial", "Start">>,
     <<"Start", "Initial">>, <<"Start", "TryLock">>, <<"Start", "Sleeping">>,
     <<"Sleeping", "Done">>, <<"Sleeping", "CheckDue">>,
     <<"CheckDue", "Sleeping">>, <<"CheckDue", "TryLock">>,
     <<"TryLock", "Sleeping">>, <<"TryLock", "Run">>,
     <<"Run", "Sleeping">>, <<"Run", "Done">>}

\* C22: every change of an executor's state is a pair of the table: Initial
\* only to Start; Start to Initial, TryLock or Sleeping; Sleeping to CheckDue
\* or Done; CheckDue to TryLock or Sleeping; TryLock to Run or Sleeping; Run
\* to Sleeping or Done; Done to nothing; a spawned task begins in Initial.
\* (A task that panics or is killed takes no transition: its trace ends.)
C22_TransitionsInTable ==
    [][\A e \in Executors :
        /\ (pc[e] = "Unspawned" /\ pc'[e] # pc[e]) => pc'[e] = "Initial"
        /\ (pc[e] # "Unspawned" /\ pc'[e] \notin {"Panicked", "Crashed"}
            /\ ExecutorState(pc'[e]) # ExecutorState(pc[e]))
           => <<ExecutorState(pc[e]), ExecutorState(pc'[e])>> \in Table]_vars

\* C22 witness: one executor has gone from Initial through Start, TryLock
\* and Run to Done (its save failed) while the other, refused the lock in
\* TryLock, is in Sleeping.
C22_Witness ==
    \E e, f \in Executors :
        /\ pc[e] = "Done"
        /\ hRes[e] = "SaveFailure"
        /\ pc[f] = "Sleeping"
        /\ hLock[f] = "AlreadyLocked"

\* C23: when lock returns Acquired and the returned record is not due, the
\* executor goes on to the releasing save without invoking the body; the
\* save, when the store applies it, leaves the stored state and last_run as
\* they were and clears owner and expires; the executor then sleeps.
C23_AcquiredNotDue ==
    [][\A e \in Executors :
        /\ (Acquired(e) /\ ~Due(jd'[e], now)) => pc'[e] = "Release"
        /\ (pc[e] = "Release" /\ pc'[e] # "Release") =>
              /\ pc'[e] = "Sleeping"
              /\ hBody' = hBody
              /\ db' # db =>
                    db' = {[Rec(db) EXCEPT !.owner = "", !.expires = 0]}]_vars

\* C24: start_all starts each registered job exactly once: a step spawns an
\* executor only for a job whose status is Registered, which becomes
\* Running, and spawns one for every Registered job of the manager; a job
\* that is Running has exactly one spawned executor and is never spawned
\* again, however register and start_all calls are interleaved.
C24_StartOnce ==
    [][/\ \A e \in Executors :
            /\ hSpawn'[e] # hSpawn[e] =>
                  (mgr[e] = "Registered" /\ mgr'[e] = "Running"
                   /\ pc[e] = "Unspawned" /\ pc'[e] = "Initial")
            /\ mgr'[e] = "Running" => hSpawn'[e] = 1
            /\ hSpawn'[e] <= 1
       /\ \A e \in Executors : hSpawn'[e] # hSpawn[e] =>
            \A j \in Jobs(e) :
                mgr[j] # "Unregistered" => (mgr'[j] = "Running"
                                            /\ hSpawn'[j] = 1)]_vars

\* C24 witness: both jobs of the one manager are Running with one spawned
\* executor each; the executor of the first has run the body and sleeps, that
\* of the second, registered later, has not left Initial.
C24_Witness ==
    /\ oneMgr
    /\ \A e \in Executors : mgr[e] = "Running" /\ hSpawn[e] = 1
    /\ pc["e1"] = "Sleeping"
    /\ hRes["e1"] = "Success"
    /\ pc["e2"] = "Initial"

\* C27: stop_by_name reaches only the named job: the only cancel receiver a
\* step resolves is that of the first job of that name in the manager's Vec;
\* no other executor started by the manager is cancelled, whether a job
\* matches the name or none does.
C27_StopOnlyNamed ==
    [][\A e \in Executors :
        (cancel'[e] /\ ~cancel[e]) => e = FirstJob(e)]_vars

\* C25: no lease refresh and no save of one executor changes the owner or
\* the expires of a lease that another instance holds (owner set to that
\* instance and expires > now).
C25_LeaseIntegrity ==
    [][\A e \in Executors :
        (/\ OnRunRefresh(e) \/ OnRunSave(e) \/ OnTryLockRelease(e)
         /\ db # {}
         /\ Rec(db).owner \notin {"", Instance(e)}
         /\ Rec(db).expires > now)
        => (/\ Rec(db').owner = Rec(db).owner
            /\ Rec(db').expires = Rec(db).expires)]_vars

\* C26: an executor in Sleeping or CheckDue holds no lease: the stored record
\* does not carry its instance as owner with expires > now.
C26_NoLeaseWhileIdle ==
    \A e \in Executors :
        pc[e] \in {"Sleeping", "CheckDue"} =>
            ~(/\ db # {}
              /\ Rec(db).owner = Instance(e)
              /\ Rec(db).expires > now)

\* The firings of the schedule within the explored time.
Firings == {k \in 1..MaxTime : k % SchedulePeriod = 0}

\* C28: when repository calls succeed, the body returns Ok, no executor is
\* cancelled and executors are scheduled fairly: whenever an executor has
\* been started and a firing has elapsed that the record's last_run does not
\* cover (or no record exists yet), a body invocation is eventually saved
\* and the stored last_run is eventually past that firing (as long as fewer
\* than MaxRuns runs have been started, the number the model explores).
C28_Progress ==
    \A k \in Firings :
        ((\E e \in Executors : pc[e] # "Unspawned")
         /\ k < now
         /\ (db = {} \/ Rec(db).last_run <= k))
        ~> \/ db # {} /\ Rec(db).last_run > k /\ hSavedRuns >= 1
           \/ hRuns >= MaxRuns

\* C28 witness: the second firing has elapsed, one executor's lock was refused
\* in that window, and the stored last_run is past the firing after the
\* second saved run, with runs to spare.
C28_Witness ==
    /\ db # {}
    /\ Rec(db).last_run > 2 * SchedulePeriod
    /\ hSavedRuns >= 2
    /\ hRuns < MaxRuns
    /\ \E e \in Executors : hLock[e] = "AlreadyLocked"

====
